---------------------------- MODULE Spec2Model ----------------------------
(***************************************************************************)
(* The usage throttle (backend/app/utils/rate_limiter.py), the streaming   *)
(* chat orchestrator (backend/app/chat/chat_service.py and                 *)
(* backend/app/api/routes/chat.py) and the thread storage and endpoints    *)
(* (backend/app/threads/thread_service.py, backend/app/crud/chat.py and    *)
(* backend/app/api/routes/threads.py) of g-chat.                           *)
(*                                                                         *)
(* Scheduling.  Every caller of the throttle is a coroutine of the one     *)
(* asyncio event loop (all route handlers that call track_request are      *)
(* `async def`, stream_response is an async generator) and the throttle's  *)
(* functions are synchronous and contain no await.  A call of a throttle   *)
(* function is therefore one step; coroutines interleave only at await     *)
(* and yield.                                                              *)
(***************************************************************************)
EXTENDS Integers, Sequences, FiniteSets, TLC

(***************************************************************************)
(* Bounds of the model.  The two limits are read from the environment      *)
(* (settings.py:19-24, defaults 60 and 60000); the model runs them small.  *)
(***************************************************************************)
REQUESTS_PER_MINUTE == 1
TOKENS_PER_MINUTE == 2
MaxTime == 124

MaxChunks == 2

(* The time the runs that record when each call was made go on for. *)
MaxLongTime == 244
MaxClock == 6

(* crud/chat.py:85: the default page size of get_thread_conversations. *)
PAGE_LIMIT == 100

(* rate_limiter.py:31 and :148: the length of the accounting window. *)
WINDOW_SECONDS == 60

(* time.time() is a float; the model's clock counts half seconds, so that   *)
(* an instant may lie between two whole seconds.  MaxTime is in half        *)
(* seconds.                                                                 *)
HalfSeconds(seconds) == 2 * seconds

(* What the clock may advance between two steps, in half seconds: 30 s and  *)
(* 30 s reach exactly 60 s (no reset), 30 s and 30.5 s reach 60.5 s         *)
(* (reset).                                                                 *)
TickSteps == {HalfSeconds(30), HalfSeconds(30) + 1}

(* N callers against a token limit of N-1. *)
Callers == 1 .. (TOKENS_PER_MINUTE + 1)

(* Token counts a caller may pass: 0, the values up to the limit, and one   *)
(* value above the whole limit.                                             *)
TokenCounts == 0 .. (TOKENS_PER_MINUTE + 1)

(* The chat requests, the users and the thread ids of the model.  One chat  *)
(* request runs against the thread endpoints and the clock: the             *)
(* orchestrator is sequential per request.                                  *)
Requests == {1}

Users == {"u1", "u2"}

ThreadIds == {"t1", "t2"}

(* What a chat request may carry: the caller is u1, on the own thread t1    *)
(* with a question of no token or of two tokens, or on thread t2.           *)
ChatInputs ==
    {[caller |-> "u1", thread_id |-> "t1", question |-> "hi",
      model |-> "gemini-2.0-flash"],
     [caller |-> "u1", thread_id |-> "t1", question |-> "what is up",
      model |-> "gemini-1.5-pro"],
     [caller |-> "u1", thread_id |-> "t2", question |-> "hi",
      model |-> "gemini-2.0-flash"]}

RECURSIVE Repeat(_, _)
Repeat(ch, n) == IF n = 0 THEN "" ELSE ch \o Repeat(ch, n - 1)

(* Texts a chunk of the external model may carry: none, one of no token,    *)
(* one of one token, and one of more tokens than the whole token limit.     *)
ChunkTexts == {"", "bb", "aaaa", Repeat("c", 4 * (TOKENS_PER_MINUTE + 1))}

UpstreamErrors == {"upstream failed"}

VARIABLES
    usage_tracking,   \* rate_limiter.py:14  the process-wide window record
    now,              \* time.time(), in half seconds
    calls,            \* per caller: the throttle call it made and what it got
    threads,          \* table threads: thread id -> row
    conversations,    \* table conversations: the set of rows
    db_clock,         \* the storage's clock, read at every write
    chat,             \* per chat request: the handler's and generator's state
    resp              \* the response of the last thread endpoint call

throttleVars == <<usage_tracking, now, calls>>

storageVars == <<threads, conversations, db_clock>>

vars == <<usage_tracking, now, calls, threads, conversations, db_clock, chat, resp>>

-----------------------------------------------------------------------------
(* errors.py *)

NoError == [status_code |-> 0, limit_type |-> "", limit |-> 0]

RateLimitError(limit_type, limit) ==
    [status_code |-> 429, limit_type |-> limit_type, limit |-> limit]

-----------------------------------------------------------------------------
(* rate_limiter.py *)

FreshWindow(t) == [last_reset |-> t, tokens_used |-> 0, requests_used |-> 0]

(* Variant: the reset moves the window's start and keeps the counters.       *)
check_and_reset_counters_KeepsCounters(u, t) ==
    IF t - u.last_reset > HalfSeconds(WINDOW_SECONDS)
    THEN [u EXCEPT !.last_reset = t] ELSE u

(* Variant: the window is replaced at exactly 60 seconds already.           *)
check_and_reset_counters_AtSixty(u, t) ==
    IF t - u.last_reset >= HalfSeconds(WINDOW_SECONDS) THEN FreshWindow(t) ELSE u

(* Variant: the window is replaced after half a minute.                     *)
check_and_reset_counters_HalfMinute(u, t) ==
    IF t - u.last_reset >= HalfSeconds(30) THEN FreshWindow(t) ELSE u

(* The window record after check_and_reset_counters() ran at time t. *)
check_and_reset_counters(u, t) ==
    IF t - u.last_reset > HalfSeconds(WINDOW_SECONDS) THEN FreshWindow(t) ELSE u

(* Variant: the admitted tokens are not written back.                       *)
check_token_rate_limit_Unrecorded(u, t, token_count) ==
    LET r == check_and_reset_counters(u, t) IN
    [ret |-> ~(r.tokens_used + token_count > TOKENS_PER_MINUTE), usage |-> r]

(* Variant: a call that would reach the limit exactly is refused.           *)
check_token_rate_limit_AtLimit(u, t, token_count) ==
    LET r == check_and_reset_counters(u, t) IN
    IF r.tokens_used + token_count >= TOKENS_PER_MINUTE
    THEN [ret |-> FALSE, usage |-> r]
    ELSE [ret |-> TRUE,
          usage |-> [r EXCEPT !.tokens_used = @ + token_count]]

(* Variant: the first call of a window is admitted whatever its count.      *)
check_token_rate_limit_FirstAlways(u, t, token_count) ==
    LET r == check_and_reset_counters(u, t) IN
    IF r.tokens_used > 0 /\ r.tokens_used + token_count > TOKENS_PER_MINUTE
    THEN [ret |-> FALSE, usage |-> r]
    ELSE [ret |-> TRUE,
          usage |-> [r EXCEPT !.tokens_used = @ + token_count]]

(* check_token_rate_limit(token_count) at time t: the value returned and    *)
(* the window record it leaves.                                             *)
check_token_rate_limit(u, t, token_count) ==
    LET r == check_and_reset_counters(u, t) IN
    IF r.tokens_used + token_count > TOKENS_PER_MINUTE
    THEN [ret |-> FALSE, usage |-> r]
    ELSE [ret |-> TRUE,
          usage |-> [r EXCEPT !.tokens_used = @ + token_count]]

(* Variant: the increment is applied to the record read before the reset    *)
(* check, so a reset in the same call loses it.                             *)
track_request_StaleRecord(u, t) ==
    LET r == check_and_reset_counters(u, t) IN
    IF r.requests_used >= REQUESTS_PER_MINUTE
    THEN [raised |-> RateLimitError("Request", REQUESTS_PER_MINUTE), usage |-> r]
    ELSE [raised |-> NoError,
          usage |-> IF r = u THEN [r EXCEPT !.requests_used = @ + 1] ELSE r]

(* Variant: the request that finds the counter at the limit is let in.      *)
track_request_OneMore(u, t) ==
    LET r == check_and_reset_counters(u, t) IN
    IF r.requests_used > REQUESTS_PER_MINUTE
    THEN [raised |-> RateLimitError("Request", REQUESTS_PER_MINUTE), usage |-> r]
    ELSE [raised |-> NoError,
          usage |-> [r EXCEPT !.requests_used = @ + 1]]

(* track_request() at time t: the exception raised (NoError when it         *)
(* returns) and the window record it leaves.                                *)
track_request(u, t) ==
    LET r == check_and_reset_counters(u, t) IN
    IF r.requests_used >= REQUESTS_PER_MINUTE
    THEN [raised |-> RateLimitError("Request", REQUESTS_PER_MINUTE), usage |-> r]
    ELSE [raised |-> NoError,
          usage |-> [r EXCEPT !.requests_used = @ + 1]]

(* Python's max of two numbers. *)
max(a, b) == IF a > b THEN a ELSE b

(* Python's int() of a non-negative time, here in half seconds: the whole   *)
(* seconds in it, the fraction dropped.                                     *)
int_seconds(half_seconds) == half_seconds \div 2

StatusDict(requests_used, remaining_requests, tokens_used, remaining_tokens, reset_after_seconds) ==
    [requests |-> [limit |-> REQUESTS_PER_MINUTE, used |-> requests_used,
                   remaining |-> remaining_requests,
                   reset_after_seconds |-> reset_after_seconds],
     tokens |-> [limit |-> TOKENS_PER_MINUTE, used |-> tokens_used,
                 remaining |-> remaining_tokens,
                 reset_after_seconds |-> reset_after_seconds]]

(* Variant: the snapshot is taken of the record as it was before the reset  *)
(* check.                                                                   *)
get_rate_limit_status_StaleWindow(u, t) ==
    LET r == check_and_reset_counters(u, t)
        time_until_reset == max(0, HalfSeconds(WINDOW_SECONDS) - (t - r.last_reset))
    IN [ret |-> StatusDict(u.requests_used,
                           max(0, REQUESTS_PER_MINUTE - u.requests_used),
                           u.tokens_used, TOKENS_PER_MINUTE - u.tokens_used,
                           int_seconds(time_until_reset)),
        usage |-> r]

(* Variant: reading the status is counted as a request.                     *)
get_rate_limit_status_Counted(u, t) ==
    LET r == check_and_reset_counters(u, t)
        time_until_reset == max(0, HalfSeconds(WINDOW_SECONDS) - (t - r.last_reset))
    IN [ret |-> StatusDict(r.requests_used,
                           max(0, REQUESTS_PER_MINUTE - r.requests_used),
                           r.tokens_used, TOKENS_PER_MINUTE - r.tokens_used,
                           int_seconds(time_until_reset)),
        usage |-> [r EXCEPT !.requests_used = @ + 1]]

(* get_rate_limit_status() at time t: the dict returned and the window      *)
(* record it leaves.  The function reads the clock a second time at line    *)
(* 148; the call takes no time on the model's clock.                        *)
get_rate_limit_status(u, t) ==
    LET r == check_and_reset_counters(u, t)
        time_until_reset == max(0, HalfSeconds(WINDOW_SECONDS) - (t - r.last_reset))
        remaining_requests == max(0, REQUESTS_PER_MINUTE - r.requests_used)
    IN [ret |-> StatusDict(r.requests_used, remaining_requests,
                           r.tokens_used, TOKENS_PER_MINUTE - r.tokens_used,
                           int_seconds(time_until_reset)),
        usage |-> r]

-----------------------------------------------------------------------------
(* What a caller did.  win is the window (its last_reset) the call was      *)
(* accounted in; for a status call, status is the dict it got and seen the  *)
(* number of track_request and check_token_rate_limit calls made before it. *)

NoStatus == StatusDict(0, 0, 0, 0, 0)

CallRecord(op, count, ret, raised, win, seen, status) ==
    [op |-> op, count |-> count, ret |-> ret, raised |-> raised, win |-> win,
     seen |-> seen, status |-> status]

(* A caller that has not called yet. *)
Idle == CallRecord("idle", 0, FALSE, NoError, 0, 0, NoStatus)

AdmitCalls == {c \in Callers : calls[c].op \in {"tokens", "request"}}

-----------------------------------------------------------------------------
ThrottleInit ==
    /\ now = 0
    /\ usage_tracking = FreshWindow(0)
    /\ calls = [c \in Callers |-> Idle]


(* A coroutine calls check_token_rate_limit(n). *)
CallCheckTokens(c, n) ==
    /\ calls[c].op = "idle"
    /\ LET res == check_token_rate_limit(usage_tracking, now, n) IN
         /\ usage_tracking' = res.usage
         /\ calls' = [calls EXCEPT ![c] =
                CallRecord("tokens", n, res.ret, NoError, res.usage.last_reset,
                           0, NoStatus)]
    /\ UNCHANGED <<now, storageVars, chat, resp>>

(* A coroutine calls track_request(). *)
CallTrackRequest(c) ==
    /\ calls[c].op = "idle"
    /\ LET res == track_request(usage_tracking, now) IN
         /\ usage_tracking' = res.usage
         /\ calls' = [calls EXCEPT ![c] =
                CallRecord("request", 0, res.raised = NoError, res.raised,
                           res.usage.last_reset, 0, NoStatus)]
    /\ UNCHANGED <<now, storageVars, chat, resp>>

(* A coroutine calls get_rate_limit_status(). *)
CallGetRateLimitStatus(c) ==
    /\ calls[c].op = "idle"
    /\ LET res == get_rate_limit_status(usage_tracking, now) IN
         /\ usage_tracking' = res.usage
         /\ calls' = [calls EXCEPT ![c] =
                CallRecord("status", 0, TRUE, NoError, res.usage.last_reset,
                           Cardinality(AdmitCalls), res.ret)]
    /\ UNCHANGED <<now, storageVars, chat, resp>>

(* The clock advances. *)
Tick ==
    /\ \E dt \in TickSteps : now + dt <= MaxTime /\ now' = now + dt
    /\ UNCHANGED <<usage_tracking, calls, storageVars, chat, resp>>

ThrottleNext ==
    \/ \E c \in Callers, n \in TokenCounts : CallCheckTokens(c, n)
    \/ \E c \in Callers : CallTrackRequest(c)
    \/ \E c \in Callers : CallGetRateLimitStatus(c)
    \/ Tick

-----------------------------------------------------------------------------
(* The same calls over a longer time, each recorded with the time it was    *)
(* made at, for what is admitted within an interval of time.  The calls     *)
(* are numbered in the order they are made in.                              *)

IsNextCall(c) ==
    /\ calls[c].op = "idle"
    /\ \A d \in Callers : d < c => calls[d].op # "idle"

TimedCall(op, count, ret, at) == [op |-> op, count |-> count, ret |-> ret, at |-> at]

(* A coroutine calls check_token_rate_limit(n) at the time now. *)
TimedCheckTokens(c, n) ==
    /\ IsNextCall(c)
    /\ LET res == check_token_rate_limit(usage_tracking, now, n) IN
         /\ usage_tracking' = res.usage
         /\ calls' = [calls EXCEPT ![c] = TimedCall("tokens", n, res.ret, now)]
    /\ UNCHANGED <<now, storageVars, chat, resp>>

(* A coroutine calls track_request() at the time now. *)
TimedTrackRequest(c) ==
    /\ IsNextCall(c)
    /\ LET res == track_request(usage_tracking, now) IN
         /\ usage_tracking' = res.usage
         /\ calls' = [calls EXCEPT ![c] =
                TimedCall("request", 0, res.raised = NoError, now)]
    /\ UNCHANGED <<now, storageVars, chat, resp>>

(* The clock advances. *)
LongTick ==
    /\ \E dt \in TickSteps : now + dt <= MaxLongTime /\ now' = now + dt
    /\ UNCHANGED <<usage_tracking, calls, storageVars, chat, resp>>

IntervalNext ==
    \/ \E c \in Callers, n \in TokenCounts : TimedCheckTokens(c, n)
    \/ \E c \in Callers : TimedTrackRequest(c)
    \/ LongTick

-----------------------------------------------------------------------------
(* rate_limiter.py:46-68, count_tokens.  tiktoken is a third-party          *)
(* tokenizer; the model takes the function's own fallback, len(text) // 4.  *)
count_tokens(text) == Len(text) \div 4

-----------------------------------------------------------------------------
(* Storage: models/chat.py and crud/chat.py.  A database value is a record  *)
(* [threads, conversations, clock]; the clock is read by every write, and   *)
(* it has advanced since the write before (func.now() and utcnow() have     *)
(* microsecond resolution), so no two rows share created_at.                *)

NoThread == [exists |-> FALSE, user_id |-> "", title |-> "", updated_at |-> 0]

NoModel == "None"

(* Python's None for a message argument. *)
None == [role |-> "", content |-> "", model |-> NoModel, token_count |-> 0]

Database == [threads |-> threads, conversations |-> conversations, clock |-> db_clock]

(* crud get_thread: the row, or NoThread for Python's None. *)
get_thread(db, thread_id) == db.threads[thread_id]

(* crud create_conversation: insert one row; created_at is the server's     *)
(* time.  req records which chat request wrote the row (0: none); it is     *)
(* history, no column of the table.                                         *)
create_conversation(db, conversation, req) ==
    [db EXCEPT !.clock = @ + 1,
               !.conversations = @ \cup
                   {[thread_id |-> conversation.thread_id,
                     role |-> conversation.role,
                     content |-> conversation.content,
                     model |-> conversation.model,
                     token_count |-> conversation.token_count,
                     created_at |-> db.clock + 1,
                     req |-> req]}]

(* ORDER BY created_at ASC. *)
RECURSIVE OrderByCreatedAt(_)
OrderByCreatedAt(rows) ==
    IF rows = {} THEN <<>>
    ELSE LET first == CHOOSE x \in rows : \A y \in rows : x.created_at <= y.created_at
         IN <<first>> \o OrderByCreatedAt(rows \ {first})

ThreadRows(db, thread_id) == {c \in db.conversations : c.thread_id = thread_id}

(* Variant: the newest turn first (ORDER BY created_at DESC). *)
get_thread_conversations_Desc(db, thread_id) ==
    LET rows == OrderByCreatedAt(ThreadRows(db, thread_id))
    IN [i \in 1 .. Len(rows) |-> rows[Len(rows) + 1 - i]]

(* crud get_thread_conversations with its defaults skip = 0, limit = 100. *)
get_thread_conversations(db, thread_id) ==
    LET rows == OrderByCreatedAt(ThreadRows(db, thread_id))
    IN SubSeq(rows, 1, IF Len(rows) < PAGE_LIMIT THEN Len(rows) ELSE PAGE_LIMIT)

(* Variant: the thread's row is deleted and its conversations are left. *)
delete_thread_NoCascade(db, thread_id) ==
    IF ~get_thread(db, thread_id).exists THEN [ret |-> FALSE, db |-> db]
    ELSE [ret |-> TRUE, db |-> [db EXCEPT !.threads[thread_id] = NoThread]]

(* crud delete_thread: the row and, by cascade, its conversations. *)
delete_thread(db, thread_id) ==
    IF ~get_thread(db, thread_id).exists THEN [ret |-> FALSE, db |-> db]
    ELSE [ret |-> TRUE,
          db |-> [db EXCEPT !.threads[thread_id] = NoThread,
                            !.conversations = @ \ ThreadRows(db, thread_id)]]

-----------------------------------------------------------------------------
(* threads/thread_service.py *)

(* Variant: the newest turn first. *)
get_thread_messages_optimized_NewestFirst(db, thread_id) ==
    LET rows == OrderByCreatedAt(ThreadRows(db, thread_id))
    IN [i \in 1 .. Len(rows) |-> [role |-> rows[Len(rows) + 1 - i].role,
                                  text |-> rows[Len(rows) + 1 - i].content]]

(* get_thread_messages_optimized: role and text of the thread's turns,      *)
(* ORDER BY created_at ASC, without a limit.                                *)
get_thread_messages_optimized(db, thread_id) ==
    LET rows == OrderByCreatedAt(ThreadRows(db, thread_id))
    IN [i \in 1 .. Len(rows) |-> [role |-> rows[i].role, text |-> rows[i].content]]

(* Variant: the model id of the response is not stored.                     *)
MessageRow_NoModel(thread_id, role, message) ==
    [thread_id |-> thread_id, role |-> role, content |-> message.content,
     model |-> NoModel,
     token_count |-> IF message.token_count # 0 THEN message.token_count
                     ELSE count_tokens(message.content)]

(* The ConversationCreate built from a message dict (lines 180-189 and      *)
(* 194-203): `token_count or count_tokens(content)`.                        *)
MessageRow(thread_id, role, message) ==
    [thread_id |-> thread_id, role |-> role, content |-> message.content,
     model |-> IF role = "user" THEN NoModel ELSE message.model,
     token_count |-> IF message.token_count # 0 THEN message.token_count
                     ELSE count_tokens(message.content)]

(* Variant: the messages are stored and updated_at is left as it was. *)
add_messages_to_thread_NoBump(db, thread_id, user_message, assistant_response, req) ==
    IF ~get_thread(db, thread_id).exists THEN [ret |-> FALSE, db |-> db, commits |-> 0]
    ELSE LET d1 == IF user_message # None
                   THEN create_conversation(db, MessageRow(thread_id, "user", user_message), req)
                   ELSE db
             d2 == IF assistant_response # None
                   THEN create_conversation(d1, MessageRow(thread_id, "model", assistant_response), req)
                   ELSE d1
         IN [ret |-> TRUE, db |-> d2,
             commits |-> (IF user_message # None THEN 1 ELSE 0)
                           + (IF assistant_response # None THEN 1 ELSE 0)]

(* add_messages_to_thread: the value returned, the database it leaves and   *)
(* the number of commits it made: create_conversation commits each row it   *)
(* inserts (crud/chat.py:79), and the update of updated_at is committed     *)
(* after that (lines 207-210).  updated_at is datetime.utcnow(), read       *)
(* after the insertions; it is taken on the storage's clock.                *)
add_messages_to_thread(db, thread_id, user_message, assistant_response, req) ==
    IF ~get_thread(db, thread_id).exists THEN [ret |-> FALSE, db |-> db, commits |-> 0]
    ELSE LET d1 == IF user_message # None
                   THEN create_conversation(db, MessageRow(thread_id, "user", user_message), req)
                   ELSE db
             d2 == IF assistant_response # None
                   THEN create_conversation(d1, MessageRow(thread_id, "model", assistant_response), req)
                   ELSE d1
         IN [ret |-> TRUE,
             db |-> [d2 EXCEPT !.clock = @ + 1,
                               !.threads[thread_id].updated_at = d2.clock + 1],
             commits |-> (IF user_message # None THEN 1 ELSE 0)
                           + (IF assistant_response # None THEN 1 ELSE 0) + 1]

-----------------------------------------------------------------------------
(* chat/chat_service.py: the events of the stream, as written to the wire. *)

sse_content(text) == "data: {\"content\": \"" \o text \o "\"}\n\n"

DONE == "data: [DONE]\n\n"

TRUNCATION_NOTICE == "\\u26a0\\ufe0f Token rate limit exceeded. Response truncated."

error_text(e) == "\\u26a0\\ufe0f Error: " \o e

IdleChat ==
    [pc |-> "idle", caller |-> "", thread_id |-> "", question |-> "", model |-> "",
     history |-> <<>>, stored |-> FALSE, body |-> "", accumulated_text |-> "",
     pulled |-> <<>>, events |-> <<>>, outcome |-> "", status |-> 0,
     commits |-> 0]

(* In a chat record, commits is the number of storage commits the          *)
(* request's latest writing step (the handler, the end of the stream) made. *)

(* The generator is suspended at a yield or has not started. *)
Suspended(r) == chat[r].pc \in {"open", "sent_content", "sent_notice", "sent_error"}

SetDatabase(db) ==
    /\ threads' = db.threads
    /\ conversations' = db.conversations
    /\ db_clock' = db.clock

(* Variant: the history is read after the user turn is stored. *)
ChatWithThread_HistoryAfterStore(r, u, t, q, m) ==
    /\ chat[r].pc = "idle"
    /\ LET new_user_message == [role |-> "user", content |-> q, model |-> NoModel,
                                token_count |-> count_tokens(q)]
           res == add_messages_to_thread(Database, t, new_user_message, None, r)
       IN /\ SetDatabase(res.db)
          /\ chat' = [chat EXCEPT ![r] =
                   [IdleChat EXCEPT
                      !.pc = "open",
                      !.caller = u, !.thread_id = t, !.question = q, !.model = m,
                      !.history = get_thread_messages_optimized(res.db, t),
                      !.stored = res.ret, !.body = "stream", !.status = 200,
                      !.commits = res.commits]]
    /\ UNCHANGED <<throttleVars, resp>>

(* Variant: the tokens of the question are charged to the token budget. *)
ChatWithThread_ChargesQuestion(r, u, t, q, m) ==
    /\ chat[r].pc = "idle"
    /\ LET existing_conversation_history == get_thread_messages_optimized(Database, t)
           new_user_message == [role |-> "user", content |-> q, model |-> NoModel,
                                token_count |-> count_tokens(q)]
           res == add_messages_to_thread(Database, t, new_user_message, None, r)
       IN /\ SetDatabase(res.db)
          /\ chat' = [chat EXCEPT ![r] =
                   [IdleChat EXCEPT
                      !.pc = "open",
                      !.caller = u, !.thread_id = t, !.question = q, !.model = m,
                      !.history = existing_conversation_history,
                      !.stored = res.ret, !.body = "stream", !.status = 200,
                      !.commits = res.commits]]
    /\ usage_tracking' = check_token_rate_limit(usage_tracking, now, count_tokens(q)).usage
    /\ UNCHANGED <<now, calls, resp>>

(* routes/chat.py chat_with_thread, with process_chat_request: read the     *)
(* history, store the user turn, create the model session and return the    *)
(* streaming response, or the error dict when creating the session raises   *)
(* (chat_service.py:65-70); both are answered with status 200.  The handler *)
(* has no dependency on the current user and calls neither get_thread nor   *)
(* track_request; u is who sent the request, which the handler does not     *)
(* learn.  The decorator of line 25 is the slowapi library's limit per      *)
(* remote address, which is no part of usage_tracking; it is taken to let   *)
(* the request pass.                                                        *)
ChatWithThread(r, u, t, q, m) ==
    /\ chat[r].pc = "idle"
    /\ LET existing_conversation_history == get_thread_messages_optimized(Database, t)
           new_user_message == [role |-> "user", content |-> q, model |-> NoModel,
                                token_count |-> count_tokens(q)]
           res == add_messages_to_thread(Database, t, new_user_message, None, r)
       IN /\ SetDatabase(res.db)
          /\ \E session_ok \in BOOLEAN :
               chat' = [chat EXCEPT ![r] =
                   [IdleChat EXCEPT
                      !.pc = IF session_ok THEN "open" ELSE "closed",
                      !.caller = u, !.thread_id = t, !.question = q, !.model = m,
                      !.history = existing_conversation_history,
                      !.stored = res.ret,
                      !.body = IF session_ok THEN "stream" ELSE "json",
                      !.status = 200,
                      !.commits = res.commits,
                      !.outcome = IF session_ok THEN "" ELSE "NoStream"]]
    /\ UNCHANGED <<throttleVars, resp>>

(* stream_response, lines 80-82: a chunk without text is passed over. *)
PullEmptyChunk(r) ==
    /\ chat[r].pc \in {"open", "sent_content"}
    /\ Len(chat[r].pulled) < MaxChunks
    /\ chat' = [chat EXCEPT ![r].pulled = Append(@, "")]
    /\ UNCHANGED <<throttleVars, storageVars, resp>>

(* Variant: the chunk is forwarded before the token budget is asked. *)
PullChunk_ForwardFirst(r, new_text) ==
    /\ chat[r].pc \in {"open", "sent_content"}
    /\ Len(chat[r].pulled) < MaxChunks
    /\ new_text # ""
    /\ LET chunk_tokens == count_tokens(new_text)
           res == check_token_rate_limit(usage_tracking, now, chunk_tokens)
       IN /\ usage_tracking' = res.usage
          /\ chat' = [chat EXCEPT
                ![r].pulled = Append(@, new_text),
                ![r].accumulated_text = @ \o new_text,
                ![r].events = IF res.ret THEN Append(@, sse_content(new_text))
                              ELSE @ \o <<sse_content(new_text),
                                          sse_content(TRUNCATION_NOTICE)>>,
                ![r].pc = IF res.ret THEN "sent_content" ELSE "sent_notice"]
    /\ UNCHANGED <<now, calls, storageVars, resp>>

(* Variant: the budget is asked for the tokens of all the text accumulated   *)
(* so far, so the earlier fragments are counted again.                      *)
PullChunk_CountsAccumulated(r, new_text) ==
    /\ chat[r].pc \in {"open", "sent_content"}
    /\ Len(chat[r].pulled) < MaxChunks
    /\ new_text # ""
    /\ LET chunk_tokens == count_tokens(chat[r].accumulated_text \o new_text)
           res == check_token_rate_limit(usage_tracking, now, chunk_tokens)
       IN /\ usage_tracking' = res.usage
          /\ chat' = [chat EXCEPT
                ![r].pulled = Append(@, new_text),
                ![r].accumulated_text = @ \o new_text,
                ![r].events = Append(@, IF res.ret THEN sse_content(new_text)
                                        ELSE sse_content(TRUNCATION_NOTICE)),
                ![r].pc = IF res.ret THEN "sent_content" ELSE "sent_notice"]
    /\ UNCHANGED <<now, calls, storageVars, resp>>

(* Variant: the newest fragment is put in front of those already sent. *)
PullChunk_NewestFirst(r, new_text) ==
    /\ chat[r].pc \in {"open", "sent_content"}
    /\ Len(chat[r].pulled) < MaxChunks
    /\ new_text # ""
    /\ LET chunk_tokens == count_tokens(new_text)
           res == check_token_rate_limit(usage_tracking, now, chunk_tokens)
       IN /\ usage_tracking' = res.usage
          /\ chat' = [chat EXCEPT
                ![r].pulled = Append(@, new_text),
                ![r].accumulated_text = @ \o new_text,
                ![r].events = IF res.ret THEN <<sse_content(new_text)>> \o @
                              ELSE Append(@, sse_content(TRUNCATION_NOTICE)),
                ![r].pc = IF res.ret THEN "sent_content" ELSE "sent_notice"]
    /\ UNCHANGED <<now, calls, storageVars, resp>>

(* stream_response, lines 80-94: the next chunk carries text. *)
PullChunk(r, new_text) ==
    /\ chat[r].pc \in {"open", "sent_content"}
    /\ Len(chat[r].pulled) < MaxChunks
    /\ new_text # ""
    /\ LET chunk_tokens == count_tokens(new_text)
           res == check_token_rate_limit(usage_tracking, now, chunk_tokens)
       IN /\ usage_tracking' = res.usage
          /\ chat' = [chat EXCEPT
                ![r].pulled = Append(@, new_text),
                ![r].accumulated_text = @ \o new_text,
                ![r].events = Append(@, IF res.ret THEN sse_content(new_text)
                                        ELSE sse_content(TRUNCATION_NOTICE)),
                ![r].pc = IF res.ret THEN "sent_content" ELSE "sent_notice"]
    /\ UNCHANGED <<now, calls, storageVars, resp>>

(* stream_response, lines 96-110: the chunks are exhausted; store the       *)
(* model turn and end the stream.                                           *)
StreamExhausted(r) ==
    /\ chat[r].pc \in {"open", "sent_content"}
    /\ LET assistant_message ==
               [role |-> "model", content |-> chat[r].accumulated_text,
                model |-> chat[r].model,
                token_count |-> count_tokens(chat[r].accumulated_text)]
           res == add_messages_to_thread(Database, chat[r].thread_id, None,
                                         assistant_message, r)
       IN /\ SetDatabase(res.db)
          /\ chat' = [chat EXCEPT ![r].events = Append(@, DONE),
                                  ![r].pc = "closed",
                                  ![r].outcome = "Completed",
                                  ![r].commits = res.commits]
    /\ UNCHANGED <<throttleVars, resp>>

(* Variant: the text accumulated before the failure is stored as the       *)
(* model turn.                                                              *)
UpstreamRaises_StoresPartial(r, e) ==
    /\ chat[r].pc \in {"open", "sent_content"}
    /\ chat' = [chat EXCEPT ![r].events = Append(@, sse_content(error_text(e))),
                            ![r].pc = "sent_error"]
    /\ SetDatabase(add_messages_to_thread(Database, chat[r].thread_id, None,
                       [role |-> "model", content |-> chat[r].accumulated_text,
                        model |-> chat[r].model,
                        token_count |-> count_tokens(chat[r].accumulated_text)],
                       r).db)
    /\ UNCHANGED <<throttleVars, resp>>

(* stream_response, lines 112-114: send_message_stream or the iteration     *)
(* raises; the error is sent as content.                                    *)
UpstreamRaises(r, e) ==
    /\ chat[r].pc \in {"open", "sent_content"}
    /\ chat' = [chat EXCEPT ![r].events = Append(@, sse_content(error_text(e))),
                            ![r].pc = "sent_error"]
    /\ UNCHANGED <<throttleVars, storageVars, resp>>

(* Variant: the generator returns after the notice or the error without     *)
(* the sentinel.                                                            *)
SendDone_NoSentinel(r) ==
    /\ chat[r].pc \in {"sent_notice", "sent_error"}
    /\ chat' = [chat EXCEPT ![r].pc = "closed",
                            ![r].outcome = IF chat[r].pc = "sent_notice"
                                           THEN "Truncated" ELSE "Failed"]
    /\ UNCHANGED <<throttleVars, storageVars, resp>>

(* stream_response, lines 89-90 and 115: the sentinel after the truncation  *)
(* notice or after the error content.                                       *)
SendDone(r) ==
    /\ chat[r].pc \in {"sent_notice", "sent_error"}
    /\ chat' = [chat EXCEPT ![r].events = Append(@, DONE),
                            ![r].pc = "closed",
                            ![r].outcome = IF chat[r].pc = "sent_notice"
                                           THEN "Truncated" ELSE "Failed"]
    /\ UNCHANGED <<throttleVars, storageVars, resp>>

(* The caller disconnects while the generator is suspended: the generator   *)
(* is closed at its yield (GeneratorExit and CancelledError are no          *)
(* Exception, so the handler of line 112 does not run).                     *)
Cancel(r) ==
    /\ Suspended(r)
    /\ chat' = [chat EXCEPT ![r].pc = "cancelled", ![r].outcome = "Cancelled"]
    /\ UNCHANGED <<throttleVars, storageVars, resp>>

-----------------------------------------------------------------------------
(* api/routes/threads.py.  A handler runs from its first line to its        *)
(* response without an await, so it is one step.                            *)

Titles == {"first", "renamed"}

Response(op, u, t, status) == [op |-> op, user |-> u, thread_id |-> t, status |-> status]

NoResponse == Response("", "", "", 0)

(* Variant: the owner is not compared with the caller. *)
AccessStatus_AnyUser(db, u, t) == IF ~get_thread(db, t).exists THEN 404 ELSE 200

(* The checks every thread handler makes after track_request: 404 for a     *)
(* missing thread, then 403 for a thread of another user, else 200.         *)
AccessStatus(db, u, t) ==
    IF ~get_thread(db, t).exists THEN 404
    ELSE IF get_thread(db, t).user_id # u THEN 403
    ELSE 200

(* A RateLimitError of track_request has no handler: the handlers without   *)
(* try let it escape (500), update and delete turn it into                  *)
(* HTTPException(500).                                                      *)
Handle(op, u, t, effect) ==
    LET tracked == track_request(usage_tracking, now)
        status == IF tracked.raised # NoError THEN 500
                  ELSE AccessStatus(Database, u, t)
    IN /\ usage_tracking' = tracked.usage
       /\ resp' = Response(op, u, t, status)
       /\ SetDatabase(IF status = 200 THEN effect ELSE Database)
       /\ UNCHANGED <<now, calls, chat>>

(* get_thread_by_id *)
GetThreadById(u, t) ==
    /\ t \in ThreadIds
    /\ Handle("get", u, t, Database)

(* crud update_thread: the title is set; the UPDATE that results sets       *)
(* updated_at (onupdate=func.now()), and no UPDATE results when nothing     *)
(* changed.                                                                 *)
update_thread(db, t, title) ==
    IF get_thread(db, t).title = title THEN db
    ELSE [db EXCEPT !.clock = @ + 1,
                    !.threads[t].title = title,
                    !.threads[t].updated_at = db.clock + 1]

(* update_thread_by_id *)
UpdateThreadById(u, t, title) ==
    /\ db_clock < MaxClock
    /\ Handle("update", u, t, update_thread(Database, t, title))

(* delete_thread_by_id *)
DeleteThreadById(u, t) ==
    /\ t \in ThreadIds
    /\ Handle("delete", u, t, delete_thread(Database, t).db)

(* get_messages_for_thread *)
GetMessagesForThread(u, t) ==
    /\ t \in ThreadIds
    /\ Handle("messages", u, t, Database)

(* clear_thread_messages: delete the thread's conversations and commit. *)
ClearThreadMessages(u, t) ==
    /\ t \in ThreadIds
    /\ Handle("clear", u, t,
              [Database EXCEPT !.conversations = @ \ ThreadRows(Database, t)])

-----------------------------------------------------------------------------
(* The states the service can be in when the requests of a run arrive:      *)
(* u1 owns thread t1, which is empty or holds one earlier exchange; t2      *)
(* does not exist or belongs to u2.                                         *)

EarlierExchange ==
    {[thread_id |-> "t1", role |-> "user", content |-> "hi", model |-> NoModel,
      token_count |-> 0, created_at |-> 1, req |-> 0],
     [thread_id |-> "t1", role |-> "model", content |-> "aaaa",
      model |-> "gemini-2.0-flash", token_count |-> 1, created_at |-> 3, req |-> 0]}

StorageInit ==
    /\ \E t2_exists \in BOOLEAN :
         threads = [t \in ThreadIds |->
                      IF t = "t1"
                      THEN [exists |-> TRUE, user_id |-> "u1", title |-> "first",
                            updated_at |-> 4]
                      ELSE IF t2_exists
                      THEN [exists |-> TRUE, user_id |-> "u2", title |-> "first",
                            updated_at |-> 0]
                      ELSE NoThread]
    /\ conversations \in {{}, EarlierExchange}
    /\ db_clock = 4

Init ==
    /\ ThrottleInit
    /\ StorageInit
    /\ chat = [r \in Requests |-> IdleChat]
    /\ resp = NoResponse

(* The throttle does not read the storage: one state of it is enough. *)
IntervalInit == Init /\ conversations = {} /\ ~threads["t2"].exists

ChatNext ==
    \/ \E r \in Requests, i \in ChatInputs :
           ChatWithThread(r, i.caller, i.thread_id, i.question, i.model)
    \/ \E r \in Requests : PullEmptyChunk(r)
    \/ \E r \in Requests, x \in ChunkTexts : PullChunk(r, x)
    \/ \E r \in Requests : StreamExhausted(r)
    \/ \E r \in Requests, e \in UpstreamErrors : UpstreamRaises(r, e)
    \/ \E r \in Requests : SendDone(r)
    \/ \E r \in Requests : Cancel(r)
    \/ DeleteThreadById("u1", "t1")
    \/ ClearThreadMessages("u1", "t1")
    \/ Tick

ThreadsNext ==
    \/ \E u \in Users, t \in ThreadIds : GetThreadById(u, t)
    \/ \E u \in Users, t \in ThreadIds, title \in Titles : UpdateThreadById(u, t, title)
    \/ \E u \in Users, t \in ThreadIds : DeleteThreadById(u, t)
    \/ \E u \in Users, t \in ThreadIds : GetMessagesForThread(u, t)
    \/ \E u \in Users, t \in ThreadIds : ClearThreadMessages(u, t)
    \/ Tick

Next == ThrottleNext \/ IntervalNext \/ ChatNext \/ ThreadsNext

(* Everything together. *)
Spec == Init /\ [][Next]_vars

(* The throttle under concurrent callers. *)
SpecThrottle == Init /\ [][ThrottleNext]_vars

(* The throttle over several windows, with the time of each call. *)
SpecInterval == IntervalInit /\ [][IntervalNext]_vars

(* Chat requests, with thread deletions and the clock, in any interleaving. *)
SpecChat == Init /\ [][ChatNext]_vars

(* The thread endpoints. *)
SpecThreads == Init /\ [][ThreadsNext]_vars

(* What drives an open stream: the response task resumes the generator as   *)
(* long as the caller is connected, and the external model's sequence of    *)
(* chunks is finite.                                                        *)
StreamStep(r) ==
    \/ PullEmptyChunk(r)
    \/ \E x \in ChunkTexts : PullChunk(r, x)
    \/ StreamExhausted(r)
    \/ \E e \in UpstreamErrors : UpstreamRaises(r, e)
    \/ SendDone(r)

SpecChatFair == SpecChat /\ \A r \in Requests : WF_vars(StreamStep(r))

-----------------------------------------------------------------------------
(* Properties of the throttle, checked under SpecThrottle.                  *)

RECURSIVE SumCounts(_)
SumCounts(S) ==
    IF S = {} THEN 0
    ELSE LET c == CHOOSE x \in S : TRUE IN calls[c].count + SumCounts(S \ {c})

(* The calls accounted in the window that is current. *)
InWindow(op) ==
    {c \in Callers : /\ calls[c].op = op
                     /\ calls[c].ret
                     /\ calls[c].win = usage_tracking.last_reset}

AllCalledTokensOne ==
    /\ \A c \in Callers : calls[c].op = "tokens" /\ calls[c].count = 1
    /\ \A c, d \in Callers : calls[c].win = calls[d].win

(* C1: when all N callers have called check_token_rate_limit(1) inside one  *)
(* window, against a limit of N-1, exactly N-1 got True and exactly 1 got   *)
(* False, in whatever order the calls ran.                                  *)
C1_NoOverAdmission ==
    AllCalledTokensOne =>
        /\ Cardinality({c \in Callers : calls[c].ret}) = Cardinality(Callers) - 1
        /\ Cardinality({c \in Callers : ~calls[c].ret}) = 1

C1_Witness ==
    /\ AllCalledTokensOne
    /\ Cardinality(Callers) = TOKENS_PER_MINUTE + 1
    /\ usage_tracking.tokens_used = TOKENS_PER_MINUTE

(* C2: no update is lost: in every state tokens_used is the sum of the      *)
(* counts of the calls that returned True in the current window and         *)
(* requests_used is the number of track_request calls that succeeded in     *)
(* it, and neither counter exceeds its limit by more than the largest       *)
(* single increment.                                                        *)
C2_NoLostUpdate ==
    /\ usage_tracking.tokens_used = SumCounts(InWindow("tokens"))
    /\ usage_tracking.requests_used = Cardinality(InWindow("request"))
    /\ usage_tracking.tokens_used <= TOKENS_PER_MINUTE + (TOKENS_PER_MINUTE + 1)
    /\ usage_tracking.requests_used <= REQUESTS_PER_MINUTE + 1

(* Calls of both kinds were admitted before and after a window reset. *)
C2_Witness ==
    /\ usage_tracking.last_reset > 0
    /\ usage_tracking.tokens_used > 0
    /\ usage_tracking.requests_used > 0
    /\ \E c \in Callers : calls[c].op # "idle" /\ calls[c].ret /\ calls[c].win = 0

(* The counters as the reset check of a call made now leaves them. *)
WindowExpired == now - usage_tracking.last_reset > HalfSeconds(WINDOW_SECONDS)

RequestsAfterResetCheck == IF WindowExpired THEN 0 ELSE usage_tracking.requests_used

TokensAfterResetCheck == IF WindowExpired THEN 0 ELSE usage_tracking.tokens_used

(* C3: a track_request call that finds requests_used >= the limit after     *)
(* the reset check raises RateLimitError("Request", limit) and leaves both  *)
(* counters as they were; any other call returns, adds exactly 1 to         *)
(* requests_used and leaves tokens_used as it was.                          *)
C3_TrackRequest ==
    [][\A c \in Callers :
        (calls[c].op = "idle" /\ calls'[c].op = "request") =>
            IF RequestsAfterResetCheck >= REQUESTS_PER_MINUTE
            THEN /\ calls'[c].raised =
                      [status_code |-> 429, limit_type |-> "Request",
                       limit |-> REQUESTS_PER_MINUTE]
                 /\ usage_tracking'.requests_used = RequestsAfterResetCheck
                 /\ usage_tracking'.tokens_used = TokensAfterResetCheck
            ELSE /\ calls'[c].raised = NoError
                 /\ usage_tracking'.requests_used = RequestsAfterResetCheck + 1
                 /\ usage_tracking'.tokens_used = TokensAfterResetCheck]_vars

(* One call was rejected and one admitted, with tokens in the window. *)
C3_Witness ==
    /\ \E c \in Callers : calls[c].op = "request" /\ calls[c].raised.status_code = 429
    /\ \E c \in Callers : calls[c].op = "request" /\ calls[c].raised = NoError
    /\ usage_tracking.tokens_used > 0

-----------------------------------------------------------------------------
(* Properties of the chat orchestrator, checked under SpecChat.             *)

RECURSIVE Concat(_)
Concat(texts) == IF texts = <<>> THEN "" ELSE Head(texts) \o Concat(Tail(texts))

(* The chunks of the upstream log that carry text. *)
WithText(texts) == SelectSeq(texts, LAMBDA x : x # "")

SseEach(texts) == [i \in 1 .. Len(texts) |-> sse_content(texts[i])]

AllButLast(q) == SubSeq(q, 1, Len(q) - 1)

ModelRowsOf(r) == {c \in conversations : c.req = r /\ c.role = "model"}

UserRowsOf(r) == {c \in conversations : c.req = r /\ c.role = "user"}

Streaming(r) == chat[r].pc \in {"open", "sent_content"}

(* The step in which request r finds its stream exhausted. *)
Exhausting(r) == Streaming(r) /\ chat'[r].outcome = "Completed"

(* C5: for a chat request whose stream delivers all fragments, on a thread  *)
(* that exists when the stream ends, exactly one model-role turn is         *)
(* written, in the step that finds the stream exhausted; its content is     *)
(* the in-order concatenation of all fragments, its token_count is          *)
(* count_tokens(content) and its model is the requested model id.  No       *)
(* model turn of the request exists before that step and none is written    *)
(* after it.                                                                *)
C5_ExactlyOnce ==
    /\ [](\A r \in Requests : (chat[r].pc = "idle" \/ Streaming(r)) => ModelRowsOf(r) = {})
    /\ [][\A r \in Requests :
            /\ (Exhausting(r) /\ threads[chat[r].thread_id].exists) =>
                 \E row \in conversations' :
                    /\ row \notin conversations
                    /\ conversations' = conversations \cup {row}
                    /\ row.req = r
                    /\ row.thread_id = chat[r].thread_id
                    /\ row.role = "model"
                    /\ row.content = Concat(chat[r].pulled)
                    /\ row.token_count = count_tokens(Concat(chat[r].pulled))
                    /\ row.model = chat[r].model
            /\ ~Exhausting(r) => ModelRowsOf(r)' \subseteq ModelRowsOf(r)]_vars

(* A stream of two different fragments completed and its turn is stored. *)
C5_Witness ==
    \E r \in Requests :
        /\ chat[r].outcome = "Completed"
        /\ Len(WithText(chat[r].pulled)) = 2
        /\ chat[r].pulled[1] # chat[r].pulled[2]
        /\ \E row \in ModelRowsOf(r) : row.content = Concat(chat[r].pulled)

(* The fragment of a PullChunk step is refused by the token budget. *)
Refused(r) ==
    /\ Streaming(r)
    /\ Len(chat'[r].pulled) = Len(chat[r].pulled) + 1
    /\ chat'[r].pulled[Len(chat'[r].pulled)] # ""
    /\ TokensAfterResetCheck + count_tokens(chat'[r].pulled[Len(chat'[r].pulled)])
           > TOKENS_PER_MINUTE

(* C6: when check_token_rate_limit returns False for a fragment, the        *)
(* fragment is not forwarded: the truncation notice is sent in its place;   *)
(* from then on nothing is pulled from the model, and the events of the     *)
(* stream are the admitted fragments in order, then the notice as one       *)
(* content event, then (unless the caller left) the sentinel.               *)
C6_TruncationStopsForwarding ==
    /\ [][\A r \in Requests :
            /\ Refused(r) =>
                 /\ chat'[r].pc = "sent_notice"
                 /\ chat'[r].events =
                        Append(chat[r].events, sse_content(TRUNCATION_NOTICE))
            /\ chat[r].pc = "sent_notice" =>
                 /\ chat'[r].pulled = chat[r].pulled
                 /\ chat'[r].events \in {chat[r].events, Append(chat[r].events, DONE)}]_vars
    /\ [](\A r \in Requests :
            LET admitted == SseEach(AllButLast(WithText(chat[r].pulled))) IN
            /\ chat[r].pc = "sent_notice" =>
                 chat[r].events = admitted \o <<sse_content(TRUNCATION_NOTICE)>>
            /\ chat[r].outcome = "Truncated" =>
                 chat[r].events = admitted \o <<sse_content(TRUNCATION_NOTICE), DONE>>)

(* A fragment was forwarded, the next was refused, and the stream ended. *)
C6_Witness ==
    \E r \in Requests :
        /\ chat[r].outcome = "Truncated"
        /\ Len(chat[r].events) = 3
        /\ chat[r].events[1] = sse_content("aaaa")

CountOf(q, x) == Cardinality({i \in 1 .. Len(q) : q[i] = x})

(* C7, checked under SpecChatFair: every stream that was opened and is not  *)
(* cancelled by the caller ends, and a stream that ended carries the        *)
(* sentinel exactly once, as its last event; nothing is emitted after the   *)
(* sentinel.                                                                *)
C7_SentinelLast ==
    /\ \A r \in Requests :
          (chat[r].body = "stream") ~> (chat[r].pc \in {"closed", "cancelled"})
    /\ [](\A r \in Requests :
            /\ CountOf(chat[r].events, DONE) <= 1
            /\ \A i \in 1 .. Len(chat[r].events) :
                  chat[r].events[i] = DONE => i = Len(chat[r].events)
            /\ (chat[r].body = "stream" /\ chat[r].pc = "closed") =>
                  /\ chat[r].events # <<>>
                  /\ chat[r].events[Len(chat[r].events)] = DONE)
    /\ [][\A r \in Requests :
            CountOf(chat[r].events, DONE) = 1 => chat'[r].events = chat[r].events]_vars

(* Streams ended in each of the three ways; this one after a truncation. *)
C7_Witness ==
    \E r \in Requests :
        /\ chat[r].pc = "closed"
        /\ chat[r].outcome = "Truncated"
        /\ chat[r].events[Len(chat[r].events)] = DONE
        /\ Len(chat[r].events) = 3

(* C8: when the external model raises while the stream runs, the events     *)
(* are the forwarded fragments, then exactly one error content event, then  *)
(* the sentinel; the request writes no model turn, and the steps that       *)
(* handle the failure leave the stored threads and turns (the user turn     *)
(* of the request among them) as they are.                                  *)
C8_UpstreamFailure ==
    /\ [](\A r \in Requests :
            LET forwarded == SseEach(WithText(chat[r].pulled)) IN
            /\ chat[r].pc = "sent_error" =>
                 /\ \E e \in UpstreamErrors :
                       chat[r].events = forwarded \o <<sse_content(error_text(e))>>
                 /\ ModelRowsOf(r) = {}
            /\ chat[r].outcome = "Failed" =>
                 /\ \E e \in UpstreamErrors :
                       chat[r].events = forwarded \o <<sse_content(error_text(e)), DONE>>
                 /\ ModelRowsOf(r) = {})
    /\ [][\A r \in Requests :
            ( \/ Streaming(r) /\ chat'[r].pc = "sent_error"
              \/ chat[r].pc = "sent_error" /\ chat'[r].outcome = "Failed" ) =>
                 /\ conversations' = conversations
                 /\ threads' = threads]_vars

(* The model raised after a fragment was forwarded; the user turn is there. *)
C8_Witness ==
    \E r \in Requests :
        /\ chat[r].outcome = "Failed"
        /\ Len(chat[r].events) = 3
        /\ \E row \in UserRowsOf(r) : row.content = chat[r].question
        /\ ModelRowsOf(r) = {}

(* The step in which the handler of request r runs. *)
Arriving(r) == chat[r].pc = "idle" /\ chat'[r].pc # "idle"

(* C9: the handler writes the user turn (role user, content the question,   *)
(* token_count computed at the write) before the stream is opened and       *)
(* before anything is pulled from the model; a request's user turn has an   *)
(* earlier created_at than its model turn; and after one completed chat on  *)
(* an empty thread that nothing else touched, the thread's turns in         *)
(* created_at order are the user turn and then the model turn.              *)
C9_UserTurnFirst ==
    /\ [][\A r \in Requests :
            (Arriving(r) /\ threads[chat'[r].thread_id].exists) =>
                 /\ \E row \in conversations' :
                       /\ row \notin conversations
                       /\ conversations' = conversations \cup {row}
                       /\ row.req = r
                       /\ row.thread_id = chat'[r].thread_id
                       /\ row.role = "user"
                       /\ row.content = chat'[r].question
                       /\ row.token_count = count_tokens(chat'[r].question)
                 /\ chat'[r].pulled = <<>>
                 /\ chat'[r].events = <<>>]_vars
    /\ [](\A r \in Requests :
            /\ \A a \in UserRowsOf(r), b \in ModelRowsOf(r) : a.created_at < b.created_at
            /\ ( /\ chat[r].outcome = "Completed"
                 /\ threads[chat[r].thread_id].exists
                 /\ chat[r].history = <<>>
                 /\ resp = NoResponse ) =>
               LET turns == get_thread_conversations(Database, chat[r].thread_id) IN
                 /\ Len(turns) = 2
                 /\ turns[1].role = "user" /\ turns[1].content = chat[r].question
                 /\ turns[2].role = "model"
                 /\ turns[2].content = chat[r].accumulated_text)

(* One chat completed on the empty thread t1: two turns. *)
C9_Witness ==
    \E r \in Requests :
        /\ chat[r].outcome = "Completed"
        /\ chat[r].history = <<>>
        /\ resp = NoResponse
        /\ chat[r].accumulated_text # ""
        /\ Cardinality(ThreadRows(Database, chat[r].thread_id)) = 2

-----------------------------------------------------------------------------
(* Properties of the thread endpoints, checked under SpecThreads.           *)

(* A step of a thread handler; resp' names the handler, the caller and the  *)
(* thread.                                                                  *)
HandlerStep == now' = now

NotOwner ==
    /\ threads[resp'.thread_id].exists
    /\ threads[resp'.thread_id].user_id # resp'.user

(* C10 as stated: a request to read, update, delete, list the messages of   *)
(* or clear the messages of a thread of another user fails with 403 and     *)
(* leaves the thread row and its conversation rows unchanged.               *)
C10_ForbiddenAlways ==
    [][(HandlerStep /\ NotOwner) =>
          /\ resp'.status = 403
          /\ threads' = threads
          /\ conversations' = conversations]_vars

(* C10, amended: such a request leaves the thread row and its conversation  *)
(* rows unchanged, and it fails with 403 when track_request admitted it;    *)
(* when track_request rejected it, it fails before the ownership check,     *)
(* with status 500.                                                         *)
C10_ForbiddenWhenAdmitted ==
    [][(HandlerStep /\ NotOwner) =>
          /\ resp'.status =
                IF RequestsAfterResetCheck >= REQUESTS_PER_MINUTE THEN 500 ELSE 403
          /\ threads' = threads
          /\ conversations' = conversations]_vars

(* u2 was refused the deletion of u1's thread, which still holds its turns. *)
C10_Witness ==
    /\ resp = Response("delete", "u2", "t1", 403)
    /\ threads["t1"].exists
    /\ ThreadRows(Database, "t1") # {}

-----------------------------------------------------------------------------
(* Properties of the status snapshot and of the window, checked under       *)
(* SpecThrottle.                                                            *)

(* The step in which caller c reads the status. *)
StatusStep(c) == calls[c].op = "idle" /\ calls'[c].op = "status"

(* The step in which caller c makes any call of the throttle. *)
CallStep(c) == calls[c].op = "idle" /\ calls'[c].op # "idle"

(* What a status call leaves and reports, apart from reset_after_seconds:   *)
(* the counters are those the reset check leaves, used is the counter and   *)
(* remaining is max(0, limit - used).                                       *)
SnapshotOfCounters(c) ==
    LET d == calls'[c].status IN
    /\ usage_tracking'.requests_used = RequestsAfterResetCheck
    /\ usage_tracking'.tokens_used = TokensAfterResetCheck
    /\ d.requests.limit = REQUESTS_PER_MINUTE
    /\ d.tokens.limit = TOKENS_PER_MINUTE
    /\ d.requests.used = usage_tracking'.requests_used
    /\ d.tokens.used = usage_tracking'.tokens_used
    /\ d.requests.remaining =
          (IF REQUESTS_PER_MINUTE > d.requests.used
           THEN REQUESTS_PER_MINUTE - d.requests.used ELSE 0)
    /\ d.tokens.remaining =
          (IF TOKENS_PER_MINUTE > d.tokens.used
           THEN TOKENS_PER_MINUTE - d.tokens.used ELSE 0)
    /\ d.requests.remaining >= 0
    /\ d.tokens.remaining >= 0

(* The time to the end of the window at a call made now, in half seconds:   *)
(* max(0, 60 s - (now - last_reset)), last_reset as the call leaves it.     *)
UntilReset ==
    IF HalfSeconds(60) - (now - usage_tracking'.last_reset) > 0
    THEN HalfSeconds(60) - (now - usage_tracking'.last_reset) ELSE 0

(* C14 as stated: a status call changes neither counter apart from a        *)
(* window reset, and reports for both budgets used equal to the counter,    *)
(* remaining = max(0, limit - used), never negative, and                    *)
(* reset_after_seconds equal to max(0, 60 - (now - last_reset)).            *)
C14_StatusExact ==
    [][\A c \in Callers : StatusStep(c) =>
          /\ SnapshotOfCounters(c)
          /\ HalfSeconds(calls'[c].status.requests.reset_after_seconds) = UntilReset
          /\ HalfSeconds(calls'[c].status.tokens.reset_after_seconds) = UntilReset]_vars

(* C14, amended: as above, with reset_after_seconds the whole seconds of    *)
(* max(0, 60 - (now - last_reset)): the greatest whole number of seconds    *)
(* not above it.                                                            *)
C14_StatusWholeSeconds ==
    [][\A c \in Callers : StatusStep(c) =>
          /\ SnapshotOfCounters(c)
          /\ \A budget \in {"requests", "tokens"} :
                LET s == calls'[c].status[budget].reset_after_seconds IN
                /\ HalfSeconds(s) <= UntilReset
                /\ UntilReset < HalfSeconds(s + 1)]_vars

(* A status read 30.5 s into a window in which both budgets are used up. *)
C14_Witness ==
    \E c \in Callers :
        /\ calls[c].op = "status"
        /\ calls[c].status.requests.used = REQUESTS_PER_MINUTE
        /\ calls[c].status.requests.remaining = 0
        /\ calls[c].status.tokens.used = TOKENS_PER_MINUTE
        /\ calls[c].status.tokens.remaining = 0
        /\ calls[c].status.tokens.reset_after_seconds = 29

(* C15: two status reads accounted in the same window, with no              *)
(* track_request or check_token_rate_limit call between them, report the    *)
(* same used values for requests and for tokens.                            *)
C15_StatusRepeatable ==
    \A c, d \in Callers :
        ( /\ calls[c].op = "status" /\ calls[d].op = "status"
          /\ calls[c].win = calls[d].win
          /\ calls[c].seen = calls[d].seen ) =>
            /\ calls[c].status.requests.used = calls[d].status.requests.used
            /\ calls[c].status.tokens.used = calls[d].status.tokens.used

(* Two reads at different times of one window, after an admitted request. *)
C15_Witness ==
    \E c, d \in Callers :
        /\ c # d
        /\ calls[c].op = "status" /\ calls[d].op = "status"
        /\ calls[c].win = calls[d].win
        /\ calls[c].seen = 1 /\ calls[d].seen = 1
        /\ calls[c].status.requests.used = 1
        /\ calls[c].status.requests.reset_after_seconds
              # calls[d].status.requests.reset_after_seconds

(* C16: a call made after the window expired decides and reports as if      *)
(* nothing had been used: a token call is admitted if its own count fits    *)
(* the limit, a request is admitted, a status read reports used 0; and      *)
(* after a reset the counters, and every status read of the window, count   *)
(* only calls accounted in that window.                                     *)
C16_ExpiredUsageDropped ==
    /\ [][\A c \in Callers : (CallStep(c) /\ WindowExpired) =>
            /\ calls'[c].op = "tokens" =>
                  /\ calls'[c].ret = (calls'[c].count <= TOKENS_PER_MINUTE)
                  /\ usage_tracking'.tokens_used =
                        (IF calls'[c].ret THEN calls'[c].count ELSE 0)
                  /\ usage_tracking'.requests_used = 0
            /\ calls'[c].op = "request" =>
                  /\ calls'[c].raised = NoError
                  /\ usage_tracking'.requests_used = 1
                  /\ usage_tracking'.tokens_used = 0
            /\ calls'[c].op = "status" =>
                  /\ calls'[c].status.requests.used = 0
                  /\ calls'[c].status.tokens.used = 0
                  /\ usage_tracking'.requests_used = 0
                  /\ usage_tracking'.tokens_used = 0]_vars
    /\ [](usage_tracking.last_reset > 0 =>
            /\ usage_tracking.tokens_used =
                  SumCounts({c \in Callers : /\ calls[c].op = "tokens" /\ calls[c].ret
                                             /\ calls[c].win = usage_tracking.last_reset})
            /\ usage_tracking.requests_used =
                  Cardinality({c \in Callers : /\ calls[c].op = "request" /\ calls[c].ret
                                               /\ calls[c].win = usage_tracking.last_reset}))
    /\ [](\A c \in Callers : calls[c].op = "status" =>
            /\ calls[c].status.tokens.used <=
                  SumCounts({d \in Callers : /\ calls[d].op = "tokens" /\ calls[d].ret
                                             /\ calls[d].win = calls[c].win})
            /\ calls[c].status.requests.used <=
                  Cardinality({d \in Callers : /\ calls[d].op = "request" /\ calls[d].ret
                                               /\ calls[d].win = calls[c].win}))

(* The whole token limit was used in the first window and again in the      *)
(* next, and a status read of the next window saw nothing used.             *)
C16_Witness ==
    \E c, d, e \in Callers :
        /\ calls[c].op = "tokens" /\ calls[c].ret /\ calls[c].win = 0
        /\ calls[c].count = TOKENS_PER_MINUTE
        /\ calls[e].op = "status" /\ calls[e].win > 0
        /\ calls[e].status.tokens.used = 0
        /\ calls[d].op = "tokens" /\ calls[d].ret /\ calls[d].win = calls[e].win
        /\ calls[d].count = TOKENS_PER_MINUTE
        /\ usage_tracking.tokens_used = TOKENS_PER_MINUTE

(* C20: every call of the throttle first replaces the window by a fresh     *)
(* one (last_reset = now, both counters 0) if and only if now - last_reset  *)
(* is more than 60 seconds, exactly 60 being no reset, and then decides     *)
(* or reports on that window: the call is accounted in a window with        *)
(* now - last_reset <= 60.                                                  *)
C20_ResetIffOverSixty ==
    /\ [][\A c \in Callers : CallStep(c) =>
            /\ IF now - usage_tracking.last_reset > HalfSeconds(60)
               THEN /\ usage_tracking'.last_reset = now
                    /\ usage_tracking'.tokens_used \in {0, calls'[c].count}
                    /\ usage_tracking'.requests_used =
                          (IF calls'[c].op = "request" THEN 1 ELSE 0)
               ELSE /\ usage_tracking'.last_reset = usage_tracking.last_reset
                    /\ usage_tracking'.tokens_used >= usage_tracking.tokens_used
                    /\ usage_tracking'.requests_used >= usage_tracking.requests_used
            /\ calls'[c].win = usage_tracking'.last_reset
            /\ now - usage_tracking'.last_reset <= HalfSeconds(60)
            /\ now - usage_tracking'.last_reset >= 0]_vars
    /\ [](\A c \in Callers : calls[c].op = "status" =>
            /\ calls[c].status.requests.reset_after_seconds \in 0 .. 60
            /\ calls[c].status.tokens.reset_after_seconds \in 0 .. 60)

(* A status read at exactly 60 s was still accounted in the first window,   *)
(* with the usage of that window.                                           *)
C20_Witness ==
    /\ now = HalfSeconds(60)
    /\ usage_tracking.last_reset = 0
    /\ \E c \in Callers :
          /\ calls[c].op = "status" /\ calls[c].win = 0
          /\ calls[c].status.requests.reset_after_seconds = 0
          /\ calls[c].status.tokens.used > 0

-----------------------------------------------------------------------------
(* Properties of the chat handler's checks, checked under SpecChat.         *)

(* The request of this step is answered without a stream, and the step      *)
(* leaves the stored threads and turns as they are.                         *)
RejectedWith(r, status) ==
    /\ chat'[r].status = status
    /\ chat'[r].body # "stream"
    /\ chat'[r].pc = "closed"
    /\ conversations' = conversations
    /\ threads' = threads

(* C11 as stated: a chat request that names a thread which does not exist   *)
(* is answered 404, writes no turn and opens no stream, and nothing is      *)
(* ever pulled from the external model for it.                              *)
C11_MissingThreadRejected ==
    /\ [][\A r \in Requests :
            (Arriving(r) /\ ~threads[chat'[r].thread_id].exists) =>
                RejectedWith(r, 404)]_vars
    /\ [](\A r \in Requests :
            (chat[r].pc # "idle" /\ ~chat[r].stored) =>
                chat[r].pulled = <<>> /\ chat[r].events = <<>>)

(* C12 as stated: a chat request on a thread of another user is answered    *)
(* 403, writes no user turn to that thread and opens no stream, so the      *)
(* thread's history is not sent to the external model.                      *)
C12_ForeignThreadRejected ==
    [][\A r \in Requests :
          ( /\ Arriving(r)
            /\ threads[chat'[r].thread_id].exists
            /\ threads[chat'[r].thread_id].user_id # chat'[r].caller ) =>
              RejectedWith(r, 403)]_vars

(* C13 as stated: a chat request that arrives when requests_used has        *)
(* reached the limit in the current window is answered 429 before the user  *)
(* turn is written and before the stream opens, and changes no counter;     *)
(* any other chat request adds one to requests_used.                        *)
C13_ChatCountsAsRequest ==
    [][\A r \in Requests : Arriving(r) =>
          IF RequestsAfterResetCheck >= REQUESTS_PER_MINUTE
          THEN /\ RejectedWith(r, 429)
               /\ usage_tracking'.requests_used = RequestsAfterResetCheck
               /\ usage_tracking'.tokens_used = TokensAfterResetCheck
          ELSE usage_tracking'.requests_used = RequestsAfterResetCheck + 1]_vars

(* C18 as stated: when a stream was truncated by the token budget, exactly  *)
(* one model-role turn of the request is stored, and its content is the     *)
(* concatenation of the fragments forwarded before the truncation.          *)
C18_TruncatedTurnStored ==
    \A r \in Requests :
        (chat[r].outcome = "Truncated" /\ threads[chat[r].thread_id].exists) =>
            /\ Cardinality(ModelRowsOf(r)) = 1
            /\ \A row \in ModelRowsOf(r) :
                  row.content = Concat(AllButLast(WithText(chat[r].pulled)))

(* C19 as stated: when creating the client or the chat session raises, the  *)
(* response is an event stream that carries one error content event and     *)
(* then the sentinel, and no model-role turn of the request is stored.      *)
C19_EarlyFailureInBand ==
    \A r \in Requests :
        chat[r].outcome = "NoStream" =>
            /\ chat[r].body = "stream"
            /\ Len(chat[r].events) = 2
            /\ chat[r].events[2] = DONE
            /\ ModelRowsOf(r) = {}

-----------------------------------------------------------------------------
(* Deletion of a thread, checked under SpecThreads.                         *)

(* Thread t1 exists in every initial state: it is missing only after its    *)
(* owner deleted it.                                                        *)
DeletedBefore == resp'.thread_id = "t1" /\ ~threads["t1"].exists

DeleteSucceeds == resp'.op = "delete" /\ resp'.status = 200

(* What holds of every deletion: the thread and all its conversation rows   *)
(* are gone after the delete succeeded, no row is stored for a thread that  *)
(* is missing, and a deleted thread stays deleted.                          *)
DeletionIsFinal ==
    /\ [][(HandlerStep /\ DeleteSucceeds) =>
            /\ threads[resp'.thread_id].exists
            /\ threads[resp'.thread_id].user_id = resp'.user
            /\ ~threads'[resp'.thread_id].exists
            /\ \A row \in conversations' : row.thread_id # resp'.thread_id]_vars
    /\ [](\A t \in ThreadIds : ~threads[t].exists => ThreadRows(Database, t) = {})
    /\ [][\A t \in ThreadIds : ~threads[t].exists => ~threads'[t].exists]_vars

(* C17 as stated: after the owner deleted a thread, every later read,       *)
(* update, delete, message listing or clearing of that thread id, by        *)
(* whichever user, is answered 404, and none of the thread's conversation   *)
(* rows remain.                                                             *)
C17_DeletedIsNotFound ==
    /\ DeletionIsFinal
    /\ [][(HandlerStep /\ DeletedBefore) => resp'.status = 404]_vars

(* C17, amended: as above, with 404 for the later requests that             *)
(* track_request admits; one that track_request rejects fails with status   *)
(* 500 before the thread is looked up.                                      *)
C17_DeletedIsNotFoundWhenAdmitted ==
    /\ DeletionIsFinal
    /\ [][(HandlerStep /\ DeletedBefore) =>
            resp'.status =
                IF RequestsAfterResetCheck >= REQUESTS_PER_MINUTE THEN 500 ELSE 404]_vars

(* u1 deleted t1, and in a later window u2 asked for its messages: 404. *)
C17_Witness ==
    /\ resp = Response("messages", "u2", "t1", 404)
    /\ ~threads["t1"].exists
    /\ ThreadRows(Database, "t1") = {}
    /\ usage_tracking.last_reset > 0

-----------------------------------------------------------------------------
(* Token accounting of a stream, checked under SpecChat.                    *)

IsFragmentEvent(ev) ==
    /\ ev # DONE
    /\ ev # sse_content(TRUNCATION_NOTICE)
    /\ \A e \in UpstreamErrors : ev # sse_content(error_text(e))

(* The fragments of request r that were forwarded to the caller. *)
Forwarded(r) ==
    SubSeq(WithText(chat[r].pulled), 1,
           Cardinality({i \in 1 .. Len(chat[r].events) : IsFragmentEvent(chat[r].events[i])}))

RECURSIVE SumTokens(_)
SumTokens(texts) ==
    IF texts = <<>> THEN 0 ELSE count_tokens(Head(texts)) + SumTokens(Tail(texts))

RECURSIVE ForwardedTokens(_)
ForwardedTokens(S) ==
    IF S = {} THEN 0
    ELSE LET r == CHOOSE x \in S : TRUE
         IN SumTokens(Forwarded(r)) + ForwardedTokens(S \ {r})

(* The fragment of a PullChunk step is within the token budget. *)
Admitted(r) ==
    /\ Streaming(r)
    /\ Len(chat'[r].pulled) = Len(chat[r].pulled) + 1
    /\ chat'[r].pulled[Len(chat'[r].pulled)] # ""
    /\ TokensAfterResetCheck + count_tokens(chat'[r].pulled[Len(chat'[r].pulled)])
           <= TOKENS_PER_MINUTE

(* C21: as long as the window of the start is current, tokens_used is the   *)
(* sum of count_tokens over the fragments forwarded to the caller; the      *)
(* step that forwards a fragment adds exactly its tokens, the step that     *)
(* rejects one adds nothing; and once the caller has disconnected nothing   *)
(* more is pulled from the model and no tokens are added.                   *)
C21_CountedOnce ==
    /\ [](usage_tracking.last_reset = 0 =>
            usage_tracking.tokens_used = ForwardedTokens(Requests))
    /\ [][\A r \in Requests :
            /\ Admitted(r) =>
                  usage_tracking'.tokens_used =
                      TokensAfterResetCheck
                        + count_tokens(chat'[r].pulled[Len(chat'[r].pulled)])
            /\ Refused(r) => usage_tracking'.tokens_used = TokensAfterResetCheck
            /\ (Suspended(r) /\ chat'[r].pc = "cancelled") =>
                  /\ usage_tracking' = usage_tracking
                  /\ chat'[r].pulled = chat[r].pulled
            /\ chat[r].pc = "cancelled" =>
                  /\ chat'[r] = chat[r]
                  /\ usage_tracking'.tokens_used <= usage_tracking.tokens_used]_vars

(* Two fragments of one token each were forwarded, and then the caller      *)
(* disconnected.                                                            *)
C21_Witness ==
    \E r \in Requests :
        /\ chat[r].pc = "cancelled"
        /\ Len(Forwarded(r)) = 2
        /\ usage_tracking.last_reset = 0
        /\ usage_tracking.tokens_used = 2

-----------------------------------------------------------------------------
(* The writes of the orchestrator, checked under SpecChat.                  *)

(* The step of request r in which add_messages_to_thread returns True: the  *)
(* handler's, for the user turn, or the end of the stream's, for the model  *)
(* turn.                                                                    *)
Inserting(r) ==
    \/ Arriving(r) /\ threads[chat'[r].thread_id].exists
    \/ Exhausting(r) /\ threads[chat[r].thread_id].exists

C23_SingleCommit ==
    [][\A r \in Requests : Inserting(r) => chat'[r].commits = 1]_vars

-----------------------------------------------------------------------------
(* The order of the fragments, checked under SpecChat.                      *)

Range(q) == {q[i] : i \in 1 .. Len(q)}

Last(q) == q[Len(q)]

(* The events of request r that carry a fragment, in the order sent. *)
FragmentEvents(r) == SelectSeq(chat[r].events, IsFragmentEvent)

(* The step of request r that pulls a chunk with text from the upstream. *)
PullsText(r) == Len(WithText(chat'[r].pulled)) > Len(WithText(chat[r].pulled))

(* C24: the fragments sent to the caller are, in the same order and each    *)
(* once, the first fragments pulled from the upstream; all the fragments    *)
(* pulled were sent, except the last one when it was refused; and a         *)
(* fragment is pulled only when every fragment pulled before it has been    *)
(* sent.                                                                    *)
C24_InUpstreamOrder ==
    /\ [](\A r \in Requests :
            /\ FragmentEvents(r) = SseEach(Forwarded(r))
            /\ Len(WithText(chat[r].pulled)) - Len(Forwarded(r)) \in {0, 1}
            /\ Len(WithText(chat[r].pulled)) > Len(Forwarded(r)) =>
                  sse_content(TRUNCATION_NOTICE) \in Range(chat[r].events))
    /\ [][\A r \in Requests : PullsText(r) =>
            /\ FragmentEvents(r) = SseEach(WithText(chat[r].pulled))
            /\ \/ chat'[r].events
                     = Append(chat[r].events, sse_content(Last(chat'[r].pulled)))
               \/ chat'[r].events
                     = Append(chat[r].events, sse_content(TRUNCATION_NOTICE))]_vars

(* Two different fragments were pulled and both were sent, in their order. *)
C24_Witness ==
    \E r \in Requests :
        /\ Len(Forwarded(r)) = 2
        /\ Forwarded(r)[1] # Forwarded(r)[2]
        /\ FragmentEvents(r) = <<sse_content(Forwarded(r)[1]), sse_content(Forwarded(r)[2])>>

-----------------------------------------------------------------------------
(* What is admitted within an interval of time, checked under SpecInterval. *)

(* The calls of kind op admitted at a time from s to s + 60 seconds. *)
AdmittedWithin(op, s) ==
    {c \in Callers : /\ calls[c].op = op
                     /\ calls[c].ret
                     /\ calls[c].at >= s
                     /\ calls[c].at <= s + HalfSeconds(WINDOW_SECONDS)}

(* The times at which a call was made.  An interval that holds the most    *)
(* begins at the time of a call.                                            *)
CallTimes == {calls[c].at : c \in {d \in Callers : calls[d].op # "idle"}}

(* C25: in any interval of 60 seconds at most 2 * REQUESTS_PER_MINUTE calls *)
(* of track_request are admitted and the fragments admitted by              *)
(* check_token_rate_limit amount to at most 2 * TOKENS_PER_MINUTE tokens.   *)
C25_TwiceTheLimit ==
    \A s \in CallTimes :
        /\ Cardinality(AdmittedWithin("request", s)) <= 2 * REQUESTS_PER_MINUTE
        /\ SumCounts(AdmittedWithin("tokens", s)) <= 2 * TOKENS_PER_MINUTE

(* Twice the token limit was admitted within 60 seconds, across a reset,    *)
(* and a third window has begun since.                                      *)
C25_Witness ==
    /\ \E s \in CallTimes :
          SumCounts(AdmittedWithin("tokens", s)) = 2 * TOKENS_PER_MINUTE
    /\ \E c \in Callers :
          /\ calls[c].op = "request" /\ calls[c].ret
          /\ \A d \in Callers \ {c} :
                /\ calls[d].op = "tokens"
                /\ calls[d].at + HalfSeconds(WINDOW_SECONDS) < calls[c].at

-----------------------------------------------------------------------------
(* What the handler's step leaves alone, checked under SpecChat.            *)

(* C26: the step in which the chat handler receives the question, reads     *)
(* the history and stores the user turn leaves the window record, and so    *)
(* tokens_used, as it was, whatever the question and the history.           *)
C26_InboundNotCharged ==
    [][\A r \in Requests : Arriving(r) => usage_tracking' = usage_tracking]_vars

(* A question that counts as many tokens as the whole limit arrived on a    *)
(* thread with an earlier exchange and was stored; nothing is charged.      *)
C26_Witness ==
    \E r \in Requests :
        /\ chat[r].pc = "open"
        /\ chat[r].pulled = <<>>
        /\ chat[r].stored
        /\ count_tokens(chat[r].question) = TOKENS_PER_MINUTE
        /\ Len(chat[r].history) = 2
        /\ usage_tracking.tokens_used = 0

-----------------------------------------------------------------------------
(* The bounds of the counters, checked under SpecThrottle.                  *)

(* C27: in every state requests_used is from 0 to REQUESTS_PER_MINUTE and   *)
(* tokens_used from 0 to TOKENS_PER_MINUTE, and no call of                  *)
(* check_token_rate_limit with a count above TOKENS_PER_MINUTE got True.    *)
C27_CountersWithinLimits ==
    /\ 0 <= usage_tracking.requests_used
    /\ usage_tracking.requests_used <= REQUESTS_PER_MINUTE
    /\ 0 <= usage_tracking.tokens_used
    /\ usage_tracking.tokens_used <= TOKENS_PER_MINUTE
    /\ \A c \in Callers :
          (calls[c].op = "tokens" /\ calls[c].count > TOKENS_PER_MINUTE) => ~calls[c].ret

(* A count above the whole limit was refused in a window that was still     *)
(* empty, after an earlier window had been filled to both limits.           *)
C27_Witness ==
    /\ usage_tracking.last_reset > 0
    /\ usage_tracking.tokens_used = 0
    /\ \E c \in Callers :
          /\ calls[c].op = "tokens" /\ calls[c].count > TOKENS_PER_MINUTE
          /\ ~calls[c].ret /\ calls[c].win = usage_tracking.last_reset
    /\ \E c, d \in Callers :
          /\ calls[c].op = "tokens" /\ calls[c].ret /\ calls[c].win = 0
          /\ calls[c].count = TOKENS_PER_MINUTE
          /\ calls[d].op = "request" /\ calls[d].ret /\ calls[d].win = 0

-----------------------------------------------------------------------------
(* A request that track_request rejects, checked under SpecThreads.         *)

(* C28 as stated: a request to a thread endpoint that track_request         *)
(* rejects is answered with the status 429 of the RateLimitError, and the   *)
(* storage is left as it was.                                               *)
C28_RejectedIs429 ==
    [][(HandlerStep /\ RequestsAfterResetCheck >= REQUESTS_PER_MINUTE) =>
          /\ resp'.status = 429
          /\ threads' = threads
          /\ conversations' = conversations
          /\ db_clock' = db_clock]_vars

-----------------------------------------------------------------------------
(* The end of a stream whose thread went away, checked under SpecChat.      *)

(* C29 as stated, for a request whose user turn was stored: when the        *)
(* stream of request r ends with the sentinel after no truncation notice    *)
(* and no error, a model turn of r holding the whole text forwarded is in   *)
(* the storage, also when the thread was deleted or cleared while the       *)
(* stream was open.                                                         *)
C29_CompletedIsStored ==
    [][\A r \in Requests : (Exhausting(r) /\ chat[r].stored) =>
          \E row \in conversations' :
              /\ row.req = r
              /\ row.role = "model"
              /\ row.thread_id = chat[r].thread_id
              /\ row.content = Concat(Forwarded(r))]_vars

-----------------------------------------------------------------------------
(* The history given to the external model, checked under SpecChat.         *)

(* The turns of thread t that are stored before created_at time at. *)
TurnsBefore(t, at) == {x \in ThreadRows(Database, t) : x.created_at < at}

=============================================================================
